---------------------------- MODULE Spec2Model ----------------------------
(***************************************************************************)
(* Model of isochrone_selection.py: nearest-sample distance of catalog     *)
(* points to an isochrone curve and the two selections built on it.        *)
(*                                                                         *)
(* Numbers.  Colors and magnitudes are integers of a small grid.  A        *)
(* Euclidean distance sqrt(k) is carried exactly as the record             *)
(* [inf |-> FALSE, sq |-> k]; the kd-tree's "no neighbour" answer is       *)
(* [inf |-> TRUE, sq |-> 0].  An interpolated magnitude is carried exactly *)
(* as the fraction num/den (den > 0), NaN as nan = TRUE.                   *)
(*                                                                         *)
(* Library calls are modelled by what numpy/scipy do: np.column_stack      *)
(* raises ValueError on unequal lengths, np.argsort returns some           *)
(* permutation that sorts (its default kind is not stable, so the order of *)
(* equal keys is any), cKDTree accepts zero points and answers inf,        *)
(* interp1d(kind='linear') refuses fewer than one sample, delegates to     *)
(* np.interp and overwrites out-of-range answers by fill_value, and numpy  *)
(* broadcasting of 1-D arrays accepts equal lengths or a length of one.    *)
(* The curve is passed as two arrays of one length (the caller's contract).*)
(***************************************************************************)
EXTENDS Integers, Sequences, FiniteSets, TLC

VARIABLES pc, op, points, star_color, star_mag, isochrone_color,
          isochrone_mag, threshold, metric, color_threshold, mag_threshold,
          result

vars == <<pc, op, points, star_color, star_mag, isochrone_color,
          isochrone_mag, threshold, metric, color_threshold, mag_threshold,
          result>>

---------------------------------------------------------------------------
(* Bounds of the model and the grids the inputs are drawn from.            *)

MaxCurveLen == 3
MaxCatalogLen == 2

Colors == 0..2
Mags == 0..1
Thresholds == 0..1
Tolerances == 0..1
Metrics == {"perpendicular", "euclidean", "bogus"}

SeqsUpTo(S, n) == UNION {[1..k -> S] : k \in 0..n}

First(pairs) == [i \in 1..Len(pairs) |-> pairs[i][1]]
Second(pairs) == [i \in 1..Len(pairs) |-> pairs[i][2]]

(* Two input domains.  A domain holds the curves (arrays of (color, mag)   *)
(* samples), the n x 2 point arrays and the catalogs (an array of colors   *)
(* and an array of magnitudes) a call may be given.  CurveDomain: curves   *)
(* of up to MaxCurveLen samples against catalogs of at most one point.     *)
(* CatalogDomain: catalogs of up to MaxCatalogLen colors and magnitudes,   *)
(* the two lengths free, against curves of at most two samples.            *)
CurveDomain ==
    [curves   |-> SeqsUpTo(Colors \X Mags, MaxCurveLen),
     points   |-> SeqsUpTo(Colors \X Mags, 1),
     catalogs |-> {<<First(pts), Second(pts)>> :
                      pts \in SeqsUpTo(Colors \X Mags, 1)}]

CatalogDomain ==
    [curves   |-> SeqsUpTo(Colors \X Mags, 2),
     points   |-> SeqsUpTo(Colors \X Mags, MaxCatalogLen),
     catalogs |-> SeqsUpTo(Colors, MaxCatalogLen)
                      \X SeqsUpTo(Mags, MaxCatalogLen)]

---------------------------------------------------------------------------
(* Values.                                                                 *)

Inf == [inf |-> TRUE, sq |-> 0]
Finite(k) == [inf |-> FALSE, sq |-> k]

NaN == [nan |-> TRUE, num |-> 0, den |-> 1]
Frac(n, d) == [nan |-> FALSE, num |-> n, den |-> d]

Abs(x) == IF x < 0 THEN -x ELSE x

(* What a call leaves behind: it returned (mask, distances) or raised.     *)
(* calls lists the distance functions entered before the call ended.       *)
Returned(m, d, c) ==
    [status |-> "returned", exc |-> "none", msg |-> "none",
     mask |-> m, distances |-> d, calls |-> c]
Raised(e, why, c) ==
    [status |-> "raised", exc |-> e, msg |-> why,
     mask |-> <<>>, distances |-> <<>>, calls |-> c]
NoResult ==
    [status |-> "none", exc |-> "none", msg |-> "none",
     mask |-> <<>>, distances |-> <<>>, calls |-> <<>>]

---------------------------------------------------------------------------
(* numpy helpers.                                                          *)

(* np.column_stack([a, b]) of two 1-D arrays of one length.                *)
column_stack(a, b) == [i \in 1..Len(a) |-> <<a[i], b[i]>>]

(* np.argsort(a): the orders of the indices that sort a.  An order starts  *)
(* with an index of a least key and goes on with an order of the rest.     *)
RECURSIVE sorting_orders(_, _)
sorting_orders(a, rest) ==
    IF rest = {} THEN {<<>>}
    ELSE UNION {{<<i>> \o t : t \in sorting_orders(a, rest \ {i})} :
                i \in {i \in rest : \A k \in rest : a[i] <= a[k]}}

argsort(a) == sorting_orders(a, 1..Len(a))

(* a[idx]: fancy indexing by an index array.                               *)
take(a, idx) == [i \in 1..Len(idx) |-> a[idx[i]]]

(* a.min(), a.max() of a non-empty array.                                  *)
amin(a) == CHOOSE x \in {a[i] : i \in 1..Len(a)} :
               \A i \in 1..Len(a) : x <= a[i]
amax(a) == CHOOSE x \in {a[i] : i \in 1..Len(a)} :
               \A i \in 1..Len(a) : x >= a[i]

(* Lengths numpy broadcasts together, and the length that results.         *)
broadcastable(n, m) == n = m \/ n = 1 \/ m = 1
broadcast_len(n, m) == IF n = 1 THEN m ELSE n
at(a, j) == IF Len(a) = 1 THEN a[1] ELSE a[j]

---------------------------------------------------------------------------
(* scipy.spatial.cKDTree: tree.query(points) answers, for every query      *)
(* point, the distance to the nearest indexed point (k = 1, p = 2), and    *)
(* inf when the tree indexes no point.                                     *)

SqDist(p, q) ==
    (p[1] - q[1]) * (p[1] - q[1]) + (p[2] - q[2]) * (p[2] - q[2])

(* Mutant of nearest: the first indexed point instead of the nearest one.   *)
nearest_first_sample(data, p, i, best) ==
    IF Len(data) = 0 THEN best ELSE Finite(SqDist(p, data[1]))

RECURSIVE nearest(_, _, _, _)
nearest(data, p, i, best) ==
    IF i > Len(data) THEN best
    ELSE nearest(data, p, i + 1,
                 IF best.inf \/ SqDist(p, data[i]) < best.sq
                 THEN Finite(SqDist(p, data[i]))
                 ELSE best)

(* Mutant of tree_query: one answer per indexed point instead of one per   *)
(* query point.                                                            *)
tree_query_per_sample(data, pts) ==
    [j \in 1..Len(data) |-> nearest(data, data[j], 1, Inf)]

(* Mutant of tree_query: every query point is given the answer of the      *)
(* first one.                                                              *)
tree_query_first_point(data, pts) ==
    [j \in 1..Len(pts) |-> nearest(data, pts[1], 1, Inf)]

tree_query(data, pts) == [j \in 1..Len(pts) |-> nearest(data, pts[j], 1, Inf)]

(* Mutant of less_equal: the boundary left out.                            *)
less_than(d, t) == ~d.inf /\ t >= 0 /\ d.sq < t * t

(* distances <= threshold, element by element: sqrt(sq) <= t.              *)
less_equal(d, t) == ~d.inf /\ t >= 0 /\ d.sq <= t * t

---------------------------------------------------------------------------
(* perpendicular_distance, euclidean_distance.  sort_idx is the outcome    *)
(* of np.argsort(isochrone_color).                                         *)

(* Mutant of perpendicular_distance: the colors are sorted and the         *)
(* magnitudes are left in the order given (line 38 forgotten).             *)
perpendicular_distance_unpaired(pts, iso_color, iso_mag, sort_idx) ==
    tree_query(column_stack(take(iso_color, sort_idx), iso_mag), pts)

perpendicular_distance(pts, iso_color, iso_mag, sort_idx) ==
    LET color == take(iso_color, sort_idx)
        mag == take(iso_mag, sort_idx)
        isochrone_points == column_stack(color, mag)
    IN  tree_query(isochrone_points, pts)

euclidean_distance(pts, iso_color, iso_mag, sort_idx) ==
    perpendicular_distance(pts, iso_color, iso_mag, sort_idx)

---------------------------------------------------------------------------
(* select_stars.                                                           *)

select_mask(distances, thr) ==
    [j \in 1..Len(distances) |-> less_equal(distances[j], thr)]

(* Mutant of select_stars: the metric is looked at after the distances     *)
(* have been computed.                                                     *)
select_stars_checks_late(s_color, s_mag, iso_color, iso_mag, thr, m, sort_idx) ==
    IF Len(s_color) # Len(s_mag)
    THEN Raised("ValueError", "column_stack", <<>>)
    ELSE LET pts == column_stack(s_color, s_mag)
             distances ==
                 perpendicular_distance(pts, iso_color, iso_mag, sort_idx)
         IN  IF m \in {"perpendicular", "euclidean"}
             THEN Returned(select_mask(distances, thr), distances,
                           <<"perpendicular_distance">>)
             ELSE Raised("ValueError", "Unknown metric",
                         <<"perpendicular_distance">>)

select_stars(s_color, s_mag, iso_color, iso_mag, thr, m, sort_idx) ==
    IF Len(s_color) # Len(s_mag)
    THEN Raised("ValueError", "column_stack", <<>>)
    ELSE LET pts == column_stack(s_color, s_mag)
         IN  IF m = "perpendicular"
             THEN LET distances ==
                          perpendicular_distance(pts, iso_color, iso_mag, sort_idx)
                  IN  Returned(select_mask(distances, thr), distances,
                               <<"perpendicular_distance">>)
             ELSE IF m = "euclidean"
             THEN LET distances ==
                          euclidean_distance(pts, iso_color, iso_mag, sort_idx)
                  IN  Returned(select_mask(distances, thr), distances,
                               <<"euclidean_distance", "perpendicular_distance">>)
             ELSE Raised("ValueError", "Unknown metric", <<>>)

---------------------------------------------------------------------------
(* scipy.interpolate.interp1d(x, y, kind='linear', bounds_error=False,     *)
(* fill_value=nan) on a sorted x: numpy's np.interp inside the range of x, *)
(* fill_value outside it.                                                  *)

(* numpy's binary_search_with_guess, 1-based: 0 below the array,           *)
(* Len(arr) + 1 above it, else the last index whose entry is <= key.       *)
RECURSIVE linear_search(_, _, _)
linear_search(key, arr, i) ==
    IF i <= Len(arr) /\ key >= arr[i]
    THEN linear_search(key, arr, i + 1)
    ELSE i - 1

binary_search_with_guess(key, arr) ==
    IF key > arr[Len(arr)] THEN Len(arr) + 1
    ELSE IF key < arr[1] THEN 0
    ELSE linear_search(key, arr, 2)

(* Mutant of np_interp: the magnitude of the sample to the left instead of *)
(* the value on the segment.                                               *)
np_interp_previous(x, xp, fp) ==
    IF Len(xp) = 1
    THEN Frac(fp[1], 1)
    ELSE LET j == binary_search_with_guess(x, xp)
         IN  IF j = 0 THEN Frac(fp[1], 1)
             ELSE IF j = Len(xp) + 1 THEN Frac(fp[Len(xp)], 1)
             ELSE Frac(fp[j], 1)

np_interp(x, xp, fp) ==
    IF Len(xp) = 1
    THEN Frac(fp[1], 1)
    ELSE LET j == binary_search_with_guess(x, xp)
         IN  IF j = 0 THEN Frac(fp[1], 1)
             ELSE IF j = Len(xp) + 1 THEN Frac(fp[Len(xp)], 1)
             ELSE IF j = Len(xp) THEN Frac(fp[j], 1)
             ELSE IF xp[j] = x THEN Frac(fp[j], 1)
             ELSE Frac(fp[j] * (xp[j + 1] - xp[j])
                           + (fp[j + 1] - fp[j]) * (x - xp[j]),
                       xp[j + 1] - xp[j])

(* Mutant of interp1d_call: np.interp's clamped answer kept outside the    *)
(* range of x (no fill_value).                                             *)
interp1d_call_clamped(x_new, x, y) ==
    [j \in 1..Len(x_new) |-> np_interp(x_new[j], x, y)]

interp1d_call(x_new, x, y) ==
    [j \in 1..Len(x_new) |->
        IF x_new[j] < x[1] \/ x_new[j] > x[Len(x)]
        THEN NaN
        ELSE np_interp(x_new[j], x, y)]

(* np.abs(mag - e) <= tol for one star; False when e is NaN.               *)
within(mag, e, tol) == ~e.nan /\ Abs(mag * e.den - e.num) <= tol * e.den

---------------------------------------------------------------------------
(* select_stars_color_range.                                               *)

(* Mutant of color_range_mask: the color interval narrowed by the          *)
(* tolerance instead of widened (the signs of lines 165-166 swapped).      *)
color_range_mask_narrowed(s_color, s_mag, color, mag, c_thr, m_thr) ==
    IF Len(color) < 1
    THEN Raised("ValueError", "interp1d", <<>>)
    ELSE
    LET expected_mag == interp1d_call(s_color, color, mag)
        color_mask ==
            [j \in 1..Len(s_color) |->
                /\ s_color[j] >= amin(color) + c_thr
                /\ s_color[j] <= amax(color) - c_thr]
        n == broadcast_len(Len(s_mag), Len(s_color))
    IN  IF ~broadcastable(Len(s_mag), Len(s_color))
        THEN Raised("ValueError", "broadcast", <<>>)
        ELSE
        LET mag_mask ==
                [j \in 1..n |->
                    within(at(s_mag, j), at(expected_mag, j), m_thr)]
            mask ==
                [j \in 1..n |->
                    /\ at(color_mask, j)
                    /\ mag_mask[j]
                    /\ ~at(expected_mag, j).nan]
        IN  Returned(mask, <<>>, <<>>)

(* Lines 156-174, on the curve as sorted by lines 151-154.                 *)
color_range_mask(s_color, s_mag, color, mag, c_thr, m_thr) ==
    IF Len(color) < 1
    THEN Raised("ValueError", "interp1d", <<>>)
    ELSE
    LET expected_mag == interp1d_call(s_color, color, mag)
        color_mask ==
            [j \in 1..Len(s_color) |->
                /\ s_color[j] >= amin(color) - c_thr
                /\ s_color[j] <= amax(color) + c_thr]
        n == broadcast_len(Len(s_mag), Len(s_color))
    IN  IF ~broadcastable(Len(s_mag), Len(s_color))
        THEN Raised("ValueError", "broadcast", <<>>)
        ELSE
        LET mag_mask ==
                [j \in 1..n |->
                    within(at(s_mag, j), at(expected_mag, j), m_thr)]
            mask ==
                [j \in 1..n |->
                    /\ at(color_mask, j)
                    /\ mag_mask[j]
                    /\ ~at(expected_mag, j).nan]
        IN  Returned(mask, <<>>, <<>>)

(* Mutant of select_stars_color_range: the colors are sorted and the       *)
(* magnitudes are left in the order given (line 154 forgotten).            *)
select_stars_color_range_unpaired(s_color, s_mag, iso_color, iso_mag, c_thr, m_thr, sort_idx) ==
    color_range_mask(s_color, s_mag, take(iso_color, sort_idx), iso_mag,
                     c_thr, m_thr)

select_stars_color_range(s_color, s_mag, iso_color, iso_mag, c_thr, m_thr, sort_idx) ==
    color_range_mask(s_color, s_mag, take(iso_color, sort_idx),
                     take(iso_mag, sort_idx), c_thr, m_thr)

---------------------------------------------------------------------------
(* The calls.  A caller is idle, builds a curve of a domain D, makes one   *)
(* call on it with a catalog of D, and reads what the call left behind.    *)
(* The call's result is any of the results np.argsort's outcomes lead to.  *)

Init ==
    /\ pc = "idle"
    /\ op = "none"
    /\ points = <<>>
    /\ star_color = <<>>
    /\ star_mag = <<>>
    /\ isochrone_color = <<>>
    /\ isochrone_mag = <<>>
    /\ threshold = 0
    /\ metric = "none"
    /\ color_threshold = 0
    /\ mag_threshold = 0
    /\ result = NoResult

BuildCurve(D) ==
    /\ pc = "idle"
    /\ \E curve \in D.curves :
          /\ isochrone_color' = First(curve)
          /\ isochrone_mag' = Second(curve)
    /\ pc' = "ready"
    /\ UNCHANGED <<op, points, star_color, star_mag, threshold, metric,
                   color_threshold, mag_threshold, result>>

Call_perpendicular_distance(D) ==
    /\ pc = "ready"
    /\ \E pts \in D.points :
          /\ points' = pts
          /\ result' \in
               {Returned(<<>>,
                    perpendicular_distance(pts, isochrone_color,
                                           isochrone_mag, sort_idx),
                    <<"perpendicular_distance">>) :
                sort_idx \in argsort(isochrone_color)}
    /\ pc' = "done"
    /\ op' = "perpendicular_distance"
    /\ UNCHANGED <<star_color, star_mag, isochrone_color, isochrone_mag,
                   threshold, metric, color_threshold, mag_threshold>>

Call_euclidean_distance(D) ==
    /\ pc = "ready"
    /\ \E pts \in D.points :
          /\ points' = pts
          /\ result' \in
               {Returned(<<>>,
                    euclidean_distance(pts, isochrone_color,
                                       isochrone_mag, sort_idx),
                    <<"euclidean_distance", "perpendicular_distance">>) :
                sort_idx \in argsort(isochrone_color)}
    /\ pc' = "done"
    /\ op' = "euclidean_distance"
    /\ UNCHANGED <<star_color, star_mag, isochrone_color, isochrone_mag,
                   threshold, metric, color_threshold, mag_threshold>>

Call_select_stars(D) ==
    /\ pc = "ready"
    /\ \E cat \in D.catalogs, thr \in Thresholds, m \in Metrics :
          /\ star_color' = cat[1]
          /\ star_mag' = cat[2]
          /\ threshold' = thr
          /\ metric' = m
          /\ result' \in
               {select_stars(cat[1], cat[2], isochrone_color, isochrone_mag,
                             thr, m, sort_idx) :
                sort_idx \in argsort(isochrone_color)}
    /\ pc' = "done"
    /\ op' = "select_stars"
    /\ UNCHANGED <<points, isochrone_color, isochrone_mag,
                   color_threshold, mag_threshold>>

Call_select_stars_color_range(D) ==
    /\ pc = "ready"
    /\ \E cat \in D.catalogs, ct \in Tolerances, mt \in Tolerances :
          /\ star_color' = cat[1]
          /\ star_mag' = cat[2]
          /\ color_threshold' = ct
          /\ mag_threshold' = mt
          /\ result' \in
               {select_stars_color_range(cat[1], cat[2], isochrone_color,
                    isochrone_mag, ct, mt, sort_idx) :
                sort_idx \in argsort(isochrone_color)}
    /\ pc' = "done"
    /\ op' = "select_stars_color_range"
    /\ UNCHANGED <<points, isochrone_color, isochrone_mag, threshold, metric>>

(* The caller has read the result and is ready for its next call.          *)
Return ==
    /\ pc = "done"
    /\ pc' = "idle"
    /\ op' = "none"
    /\ points' = <<>>
    /\ star_color' = <<>>
    /\ star_mag' = <<>>
    /\ isochrone_color' = <<>>
    /\ isochrone_mag' = <<>>
    /\ threshold' = 0
    /\ metric' = "none"
    /\ color_threshold' = 0
    /\ mag_threshold' = 0
    /\ result' = NoResult

Next ==
    \/ BuildCurve(CurveDomain)
    \/ Call_perpendicular_distance(CurveDomain)
    \/ Call_euclidean_distance(CurveDomain)
    \/ Call_select_stars(CurveDomain)
    \/ Call_select_stars_color_range(CurveDomain)
    \/ Return

Spec == Init /\ [][Next]_vars

NextCatalog ==
    \/ BuildCurve(CatalogDomain)
    \/ Call_perpendicular_distance(CatalogDomain)
    \/ Call_euclidean_distance(CatalogDomain)
    \/ Call_select_stars(CatalogDomain)
    \/ Call_select_stars_color_range(CatalogDomain)
    \/ Return

SpecCatalog == Init /\ [][NextCatalog]_vars

---------------------------------------------------------------------------
(* What the properties below speak of.                                     *)

Done == pc = "done"
DidReturn == result.status = "returned"
DidRaise == result.status = "raised"

DistanceOps == {"perpendicular_distance", "euclidean_distance"}
KnownMetrics == {"perpendicular", "euclidean"}

CurveLen == Len(isochrone_color)
Sample(i) == <<isochrone_color[i], isochrone_mag[i]>>
CurveColors == {isochrone_color[i] : i \in 1..CurveLen}

SameLengths == Len(star_color) = Len(star_mag)

(* The catalog points of the call (of select_stars: its two arrays paired, *)
(* when they pair).                                                        *)
QueryPoints ==
    IF op \in DistanceOps THEN points ELSE column_stack(star_color, star_mag)

(* Point j is at squared distance k from its nearest curve sample.         *)
NearestIs(j, k) ==
    /\ \A i \in 1..CurveLen : k <= SqDist(QueryPoints[j], Sample(i))
    /\ \E i \in 1..CurveLen : k = SqDist(QueryPoints[j], Sample(i))

---------------------------------------------------------------------------
(* C1.  With a curve of at least one sample, the distances a call returns  *)
(* are, point by point, the distance to the nearest curve sample: no       *)
(* sample is nearer and some sample is that near.  select_stars returns    *)
(* them under either metric name, with the mask of the points having a     *)
(* sample within the threshold; the other metric name gives the same       *)
(* distances and the same mask.                                            *)
C1_NearestSample ==
    (Done /\ DidReturn /\ CurveLen >= 1 /\ op \in DistanceOps \cup {"select_stars"})
    =>
    /\ Len(result.distances) = Len(QueryPoints)
    /\ \A j \in 1..Len(QueryPoints) :
          /\ ~result.distances[j].inf
          /\ NearestIs(j, result.distances[j].sq)
    /\ op = "select_stars" =>
          /\ metric \in KnownMetrics
          /\ Len(result.mask) = Len(QueryPoints)
          /\ \A j \in 1..Len(QueryPoints) :
                result.mask[j] <=>
                    \E i \in 1..CurveLen :
                        SqDist(QueryPoints[j], Sample(i)) <= threshold * threshold
          /\ \A m \in KnownMetrics, s \in argsort(isochrone_color) :
                LET other == select_stars(star_color, star_mag, isochrone_color,
                                          isochrone_mag, threshold, m, s)
                IN  /\ other.distances = result.distances
                    /\ other.mask = result.mask

(* A 'euclidean' selection whose point is off the curve and nearer to a    *)
(* later sample than to the first one.                                     *)
C1_Witness ==
    /\ Done /\ DidReturn /\ op = "select_stars" /\ metric = "euclidean"
    /\ CurveLen >= 2 /\ Len(star_color) = 1
    /\ result.distances[1].sq > 0
    /\ result.distances[1].sq < SqDist(QueryPoints[1], Sample(1))

---------------------------------------------------------------------------
(* C2.  The mask select_stars returns agrees with the distances of the     *)
(* same call: point j is selected exactly when its distance is at most the *)
(* threshold, a distance equal to the threshold included.                  *)
C2_MaskMatchesDistances ==
    (Done /\ DidReturn /\ op = "select_stars")
    =>
    /\ Len(result.mask) = Len(result.distances)
    /\ \A j \in 1..Len(result.distances) :
          result.mask[j] <=>
              /\ ~result.distances[j].inf
              /\ result.distances[j].sq <= threshold * threshold

(* A selected point whose distance equals a threshold of 1.                *)
C2_Witness ==
    /\ Done /\ DidReturn /\ op = "select_stars"
    /\ threshold = 1
    /\ Len(result.mask) = 1
    /\ result.distances[1] = Finite(1)
    /\ result.mask[1]

---------------------------------------------------------------------------
(* The band selection, said over the samples.                              *)

(* The curve's samples in each order that is ascending in color.           *)
SortedCurves ==
    {column_stack(take(isochrone_color, s), take(isochrone_mag, s)) :
        s \in argsort(isochrone_color)}

(* min(curve color) - tol <= x <= max(curve color) + tol.                  *)
ColorOk(x, tol) ==
    /\ \E i \in 1..CurveLen : isochrone_color[i] - tol <= x
    /\ \E i \in 1..CurveLen : x <= isochrone_color[i] + tol

(* x lies in [min(curve color), max(curve color)].                         *)
InColorRange(x) ==
    /\ \E i \in 1..CurveLen : isochrone_color[i] <= x
    /\ \E i \in 1..CurveLen : x <= isochrone_color[i]

(* mag is within tol of the polyline through the color-sorted samples c at *)
(* color x: x is the color of a sample (the last one of that color) and    *)
(* mag is within tol of that sample's magnitude, or x lies strictly        *)
(* between two neighbouring samples and mag is within tol of the segment   *)
(* joining them.  The segment's inequality is multiplied by its width.     *)
MagOk(c, x, mag, tol) ==
    \/ \E k \in 1..Len(c) :
          /\ c[k][1] = x
          /\ k = Len(c) \/ c[k + 1][1] > x
          /\ Abs(mag - c[k][2]) <= tol
    \/ \E k \in 1..(Len(c) - 1) :
          /\ c[k][1] < x /\ x < c[k + 1][1]
          /\ LET dx == c[k + 1][1] - c[k][1]
                 dy == c[k + 1][2] - c[k][2]
             IN  Abs(mag * dx - (c[k][2] * dx + dy * (x - c[k][1]))) <= tol * dx

(* C3.  For a catalog of paired arrays, the mask select_stars_color_range  *)
(* returns has one entry per point, and for one color-ascending order of   *)
(* the curve every entry is color_ok AND mag_ok: the color is within       *)
(* color_threshold of the curve's color range, it lies inside that range,  *)
(* and the magnitude is within mag_threshold of the piecewise-linear       *)
(* interpolation of the sorted curve at that color.                        *)
C3_BandMask ==
    (Done /\ DidReturn /\ op = "select_stars_color_range" /\ SameLengths)
    =>
    /\ Len(result.mask) = Len(star_color)
    /\ \E c \in SortedCurves :
          \A j \in 1..Len(star_color) :
             result.mask[j] <=>
                 /\ ColorOk(star_color[j], color_threshold)
                 /\ InColorRange(star_color[j])
                 /\ MagOk(c, star_color[j], star_mag[j], mag_threshold)

(* A selected point strictly between two samples of different magnitudes,  *)
(* half a magnitude off either of them.                                    *)
C3_Witness ==
    /\ Done /\ DidReturn /\ op = "select_stars_color_range"
    /\ Len(star_color) = 1 /\ Len(star_mag) = 1
    /\ CurveLen = 2
    /\ isochrone_color[1] < star_color[1] /\ star_color[1] < isochrone_color[2]
    /\ isochrone_color[2] - isochrone_color[1] = 2
    /\ isochrone_mag[1] # isochrone_mag[2]
    /\ mag_threshold = 1
    /\ result.mask[1]

---------------------------------------------------------------------------
(* C4.  select_stars_color_range never selects a point whose color is      *)
(* outside [min curve color, max curve color], whatever the tolerances:    *)
(* neither beyond the interval widened by color_threshold nor inside the   *)
(* widening.                                                               *)
C4_OutsideRangeRejected ==
    (Done /\ DidReturn /\ op = "select_stars_color_range" /\ SameLengths)
    =>
    \A j \in 1..Len(result.mask) :
        ~InColorRange(star_color[j]) => ~result.mask[j]

(* A rejected point one color step outside the curve's range, inside the   *)
(* widening, whose magnitude is that of the nearest end of the curve.      *)
C4_Witness ==
    /\ Done /\ DidReturn /\ op = "select_stars_color_range"
    /\ Len(star_color) = 1 /\ Len(star_mag) = 1
    /\ Cardinality(CurveColors) >= 2
    /\ color_threshold = 1
    /\ ~InColorRange(star_color[1])
    /\ ColorOk(star_color[1], color_threshold)
    /\ \E i \in 1..CurveLen :
          /\ Abs(star_color[1] - isochrone_color[i]) = 1
          /\ star_mag[1] = isochrone_mag[i]
    /\ ~result.mask[1]

---------------------------------------------------------------------------
(* C5.  select_stars with a metric that is neither 'perpendicular' nor     *)
(* 'euclidean' raises ValueError, having entered no distance function, and *)
(* returns no mask and no distances; when the catalog arrays pair, the     *)
(* error is the unknown-metric one.                                        *)
C5_UnknownMetricRaises ==
    (Done /\ op = "select_stars" /\ metric \notin KnownMetrics)
    =>
    /\ DidRaise
    /\ result.exc = "ValueError"
    /\ result.calls = <<>>
    /\ result.mask = <<>>
    /\ result.distances = <<>>
    /\ SameLengths => result.msg = "Unknown metric"

(* An unknown metric with a catalog point and a curve that would have      *)
(* given a distance.                                                       *)
C5_Witness ==
    /\ Done /\ op = "select_stars" /\ metric = "bogus"
    /\ Len(star_color) = 1 /\ Len(star_mag) = 1
    /\ CurveLen >= 1
    /\ DidRaise /\ result.msg = "Unknown metric"

---------------------------------------------------------------------------
(* Sort-order independence.                                                *)

(* What the caller observes of the call, and what the same call observes   *)
(* when given the curve arrays iso_color, iso_mag and np.argsort answers   *)
(* sort_idx.                                                               *)
Observed ==
    [status |-> result.status, mask |-> result.mask,
     distances |-> result.distances]

Observe(r) == [status |-> r.status, mask |-> r.mask, distances |-> r.distances]

CallWith(iso_color, iso_mag, sort_idx) ==
    IF op = "perpendicular_distance"
    THEN [status |-> "returned", mask |-> <<>>,
          distances |-> perpendicular_distance(points, iso_color, iso_mag,
                                               sort_idx)]
    ELSE IF op = "euclidean_distance"
    THEN [status |-> "returned", mask |-> <<>>,
          distances |-> euclidean_distance(points, iso_color, iso_mag,
                                           sort_idx)]
    ELSE IF op = "select_stars"
    THEN Observe(select_stars(star_color, star_mag, iso_color, iso_mag,
                              threshold, metric, sort_idx))
    ELSE Observe(select_stars_color_range(star_color, star_mag, iso_color,
                     iso_mag, color_threshold, mag_threshold, sort_idx))

(* The color-ascending ordering of the curve's samples (samples of one     *)
(* color by ascending magnitude): the one ordering all reorderings of a    *)
(* curve share.                                                            *)
RECURSIVE AscendingFrom(_)
AscendingFrom(rest) ==
    IF rest = {} THEN <<>>
    ELSE LET i == CHOOSE i \in rest :
                     \A k \in rest :
                        \/ isochrone_color[i] < isochrone_color[k]
                        \/ /\ isochrone_color[i] = isochrone_color[k]
                           /\ isochrone_mag[i] < isochrone_mag[k]
                        \/ /\ Sample(i) = Sample(k)
                           /\ i <= k
         IN  <<i>> \o AscendingFrom(rest \ {i})

AscendingOrder == AscendingFrom(1..CurveLen)

(* The call gave what it gives for the color-ascending ordering of the     *)
(* same samples.  Every reordering of a curve is a curve of the domain, so *)
(* all reorderings of a curve then give the same.                          *)
AnyOrderGivesTheSame ==
    LET asc_color == take(isochrone_color, AscendingOrder)
        asc_mag == take(isochrone_mag, AscendingOrder)
    IN  \A s \in argsort(asc_color) :
            CallWith(asc_color, asc_mag, s) = Observed

DistinctColors == Cardinality(CurveColors) = CurveLen

Ascending ==
    \A i \in 1..(CurveLen - 1) : isochrone_color[i] <= isochrone_color[i + 1]

(* C6 as claimed: for every curve, each of the four calls gives the same   *)
(* result (the same failure included) for every order of the samples.      *)
(* The curves of select_stars_color_range are those it is specified for,   *)
(* of at least two distinct colors.                                        *)
C6_AnyCurveAnyOrder ==
    (Done /\ (op = "select_stars_color_range" => Cardinality(CurveColors) >= 2))
    => AnyOrderGivesTheSame

(* C6 as amended: the distance functions and select_stars give the same    *)
(* result for every order of the samples of every curve, and               *)
(* select_stars_color_range does for every curve whose sample colors are   *)
(* pairwise distinct.                                                      *)
C6_OrderIndependent ==
    (Done /\ (op = "select_stars_color_range" => DistinctColors))
    => AnyOrderGivesTheSame

(* A band selection that selects a point on a curve given out of order.    *)
C6_Witness ==
    /\ Done /\ DidReturn /\ op = "select_stars_color_range"
    /\ DistinctColors /\ ~Ascending /\ CurveLen = 3
    /\ Len(result.mask) = 1 /\ result.mask[1]
    /\ mag_threshold = 0

---------------------------------------------------------------------------
(* C7 as claimed, for the non-empty catalogs it names: a distance function *)
(* or select_stars given a curve of no sample and a catalog of at least    *)
(* one point raises; it returns neither distances nor a mask.              *)
C7_EmptyCurveRaises ==
    (Done /\ CurveLen = 0 /\ op \in DistanceOps \cup {"select_stars"}
          /\ (op \in DistanceOps => Len(points) >= 1)
          /\ (op = "select_stars" => Len(star_color) >= 1))
    => DidRaise

---------------------------------------------------------------------------
(* C8 as claimed, for its case of several samples: select_stars_color_range *)
(* given a curve of two or more samples that all have one color raises; it *)
(* returns no mask.                                                        *)
C8_OneColorRaises ==
    (Done /\ op = "select_stars_color_range" /\ CurveLen >= 2
          /\ Cardinality(CurveColors) < 2)
    => DidRaise

---------------------------------------------------------------------------
(* C9 as claimed, the curve being one each call accepts: select_stars and  *)
(* select_stars_color_range given catalog colors and catalog magnitudes of *)
(* different lengths raise; no mask is returned.                           *)
C9_UnequalLengthsRaise ==
    (Done /\ ~SameLengths /\ Cardinality(CurveColors) >= 2
          /\ op \in {"select_stars", "select_stars_color_range"})
    => DidRaise

---------------------------------------------------------------------------
(* C10.  Given paired catalog arrays of n >= 0 points, a known metric and  *)
(* a curve of at least one sample, select_stars returns a mask and         *)
(* distances of exactly n entries each, entry j being a finite,            *)
(* non-negative distance between catalog point j and a curve sample; an    *)
(* empty catalog gives an empty mask and empty distances, not an error.    *)
C10_OneEntryPerPoint ==
    (Done /\ op = "select_stars" /\ SameLengths /\ metric \in KnownMetrics
          /\ CurveLen >= 1)
    =>
    /\ DidReturn
    /\ Len(result.mask) = Len(star_color)
    /\ Len(result.distances) = Len(star_color)
    /\ \A j \in 1..Len(star_color) :
          /\ ~result.distances[j].inf
          /\ result.distances[j].sq >= 0
          /\ \E i \in 1..CurveLen :
                result.distances[j].sq = SqDist(QueryPoints[j], Sample(i))

(* An empty catalog against a curve of two samples.                        *)
C10_Witness ==
    /\ Done /\ op = "select_stars" /\ metric \in KnownMetrics
    /\ Len(star_color) = 0 /\ Len(star_mag) = 0
    /\ CurveLen = 2
    /\ DidReturn /\ result.mask = <<>> /\ result.distances = <<>>

---------------------------------------------------------------------------
(* Catalog-order invariance.                                               *)

(* The permutations of the rows of the point array of the call.            *)
RowPermutations ==
    {p \in [1..Len(points) -> 1..Len(points)] :
        \A i, k \in 1..Len(points) : p[i] = p[k] => i = k}

(* C11.  The distances a distance function returns permute with the rows   *)
(* of the point array: for every permutation p of the rows, entry k of the *)
(* call on the permuted rows is entry p[k] of the call made; and entry k   *)
(* is what the call gives for row k alone, whatever the other rows are.    *)
C11_RowOrderInvariant ==
    (Done /\ DidReturn /\ op \in DistanceOps)
    =>
    \A s \in argsort(isochrone_color) :
        /\ \A p \in RowPermutations :
              LET permuted ==
                      perpendicular_distance(take(points, p), isochrone_color,
                                             isochrone_mag, s)
              IN  /\ Len(permuted) = Len(points)
                  /\ \A k \in 1..Len(points) :
                        permuted[k] = result.distances[p[k]]
        /\ \A k \in 1..Len(points) :
              perpendicular_distance(<<points[k]>>, isochrone_color,
                                     isochrone_mag, s)
                  = <<result.distances[k]>>

(* Two rows at different distances from a curve of two samples.            *)
C11_Witness ==
    /\ Done /\ DidReturn /\ op \in DistanceOps
    /\ Len(points) = 2 /\ CurveLen = 2
    /\ ~result.distances[1].inf /\ ~result.distances[2].inf
    /\ result.distances[1].sq < result.distances[2].sq

---------------------------------------------------------------------------
(* C12.  With a curve of at least one sample, a catalog point that is a    *)
(* sample of the curve is at distance 0, and select_stars selects it under *)
(* every threshold; so the curve's own samples given as the catalog are    *)
(* all at distance 0 and all selected, whatever their order and whether or *)
(* not colors repeat.                                                      *)
C12_OwnSamplesAtZero ==
    (Done /\ DidReturn /\ CurveLen >= 1 /\ op \in DistanceOps \cup {"select_stars"})
    =>
    \A j \in 1..Len(QueryPoints) :
        (\E i \in 1..CurveLen : QueryPoints[j] = Sample(i))
        =>
        /\ result.distances[j] = Finite(0)
        /\ op = "select_stars" => result.mask[j]

(* A curve of two samples given in descending color, selected against      *)
(* itself under a threshold of 0.                                          *)
C12_Witness ==
    /\ Done /\ DidReturn /\ op = "select_stars"
    /\ CurveLen = 2 /\ isochrone_color[1] > isochrone_color[2]
    /\ isochrone_mag[1] # isochrone_mag[2]
    /\ star_color = isochrone_color /\ star_mag = isochrone_mag
    /\ threshold = 0
    /\ result.distances = <<Finite(0), Finite(0)>>
    /\ result.mask = <<TRUE, TRUE>>

---------------------------------------------------------------------------
(* C13.  With a curve of at least two distinct colors, what                *)
(* select_stars_color_range gives does not depend on color_threshold: for  *)
(* each outcome of np.argsort, the call with any other color_threshold     *)
(* gives the same mask (or the same failure) as the call with the one      *)
(* given, and the call made gave one of these.                             *)
C13_ColorToleranceInert ==
    (Done /\ op = "select_stars_color_range" /\ Cardinality(CurveColors) >= 2)
    =>
    /\ \E s \in argsort(isochrone_color) :
          Observe(select_stars_color_range(star_color, star_mag,
                      isochrone_color, isochrone_mag, color_threshold,
                      mag_threshold, s)) = Observed
    /\ \A s \in argsort(isochrone_color), ct \in Tolerances :
          Observe(select_stars_color_range(star_color, star_mag,
                      isochrone_color, isochrone_mag, ct, mag_threshold, s))
              = Observe(select_stars_color_range(star_color, star_mag,
                            isochrone_color, isochrone_mag, color_threshold,
                            mag_threshold, s))

(* A point the widening by color_threshold = 1 takes in and no widening    *)
(* does, within mag_threshold of every sample of the curve, rejected.      *)
C13_Witness ==
    /\ Done /\ DidReturn /\ op = "select_stars_color_range"
    /\ CurveLen = 3 /\ Cardinality(CurveColors) >= 2
    /\ Len(star_color) = 1 /\ Len(star_mag) = 1
    /\ color_threshold = 1 /\ mag_threshold = 1
    /\ ColorOk(star_color[1], 1) /\ ~ColorOk(star_color[1], 0)
    /\ result.mask = <<FALSE>>

===========================================================================
